---- MODULE Spec2Model ----
(***************************************************************************)
(* Model of the AIChat component (src/src/App.jsx): the in-memory message  *)
(* log kept in React state, the chat_history table it mirrors, and the     *)
(* asynchronous handlers that mutate both.  Every await on a store call is *)
(* two steps (the table applies the request, the handler resumes with the  *)
(* response); the await on the completion call is one step whose outcome   *)
(* is chosen when it returns.                                              *)
(*                                                                         *)
(* Spec is the component under clicks, key presses and typing; FairSpec is *)
(* Spec with every awaited call returning.  SpecLoad runs fetchMessages    *)
(* alone against a table nobody writes, and SpecExport runs                *)
(* handleDownloadPDF alone on logs of wrapped records: the export reads    *)
(* the log and sets no state, so it is left out of Spec.                   *)
(***************************************************************************)
EXTENDS Integers, Sequences, FiniteSets, TLC

(* ---------------------------- bounds ---------------------------------- *)

\* number of clicks and Enter presses in one behaviour
MaxUser == 2

\* number of times fetchMessages runs when it is studied on its own
MaxLoads == 2

\* longest log handed to handleDownloadPDF when it is studied on its own
MaxExported == 3

\* most lines one record wraps to in those logs
MaxLines == 36

(* ------------------------- text as characters ------------------------- *)

\* "generate", "image", "of": the alternatives of the pattern on line 113
Tok_generate == <<"g", "e", "n", "e", "r", "a", "t", "e">>
Tok_image == <<"i", "m", "a", "g", "e">>
Tok_of == <<"o", "f">>

\* the texts the user types into the input box
InEmpty == <<>>
InBlank == <<" ", " ">>
InHi == <<"h", "i">>
InCat == <<"g", "e", "n", "e", "r", "a", "t", "e", " ", "I", "M", "A", "G", "E",
           " ", "o", "f", " ", "a", " ", "c", "a", "t">>
Inputs == {InEmpty, InBlank, InHi, InCat}

\* the text the user types into the edit textarea
DraftYo == <<"y", "o">>
Drafts == {DraftYo}

\* String.prototype.toLowerCase, one character
LowerChar(c) ==
  CASE c = "A" -> "a" [] c = "E" -> "e" [] c = "F" -> "f" [] c = "G" -> "g"
    [] c = "I" -> "i" [] c = "M" -> "m" [] c = "N" -> "n" [] c = "O" -> "o"
    [] c = "R" -> "r" [] c = "T" -> "t"
    [] OTHER -> c

\* String.prototype.toLowerCase
ToLowerCase(s) == [i \in 1..Len(s) |-> LowerChar(s[i])]

RECURSIVE TrimStart(_)
TrimStart(s) ==
  IF s # <<>> /\ Head(s) = " " THEN TrimStart(Tail(s)) ELSE s

RECURSIVE TrimEnd(_)
TrimEnd(s) ==
  IF s # <<>> /\ s[Len(s)] = " " THEN TrimEnd(SubSeq(s, 1, Len(s) - 1)) ELSE s

\* String.prototype.trim
Trim(s) == TrimEnd(TrimStart(s))

\* does pat occur in s at position i (exact characters)
MatchAt(s, i, pat) ==
  /\ i + Len(pat) - 1 <= Len(s)
  /\ SubSeq(s, i, i + Len(pat) - 1) = pat

\* String.prototype.includes
Includes(s, pat) == \E i \in 1..(Len(s) + 1) : MatchAt(s, i, pat)

\* length of the match of /generate|image|of/i at position i, 0 if none:
\* the alternatives are tried left to right
TokenLenAtCS(s, i) ==
  IF MatchAt(s, i, Tok_generate) THEN Len(Tok_generate)
  ELSE IF MatchAt(s, i, Tok_image) THEN Len(Tok_image)
  ELSE IF MatchAt(s, i, Tok_of) THEN Len(Tok_of)
  ELSE 0

TokenLenAt(s, i) == TokenLenAtCS(ToLowerCase(s), i)

RECURSIVE StripFrom(_, _)
StripFrom(s, i) ==
  IF i > Len(s) THEN <<>>
  ELSE LET n == TokenLenAt(s, i)
       IN IF n > 0 THEN StripFrom(s, i + n)
          ELSE <<s[i]>> \o StripFrom(s, i + 1)

\* input.replace(/generate|image|of/gi, ""): one left-to-right pass
StripTokens(s) == StripFrom(s, 1)

\* the prompt without the trim
ImagePromptUntrimmed(s) == StripTokens(s)

\* input.replace(/generate|image|of/gi, "").trim()
ImagePrompt(s) == Trim(StripTokens(s))

RECURSIVE EncodeURIComponent(_)
EncodeURIComponent(s) ==
  IF s = <<>> THEN <<>>
  ELSE (IF Head(s) = " " THEN <<"%", "2", "0">> ELSE <<Head(s)>>)
         \o EncodeURIComponent(Tail(s))

\* `https://image.pollinations.ai/prompt/${encodeURIComponent(prompt)}`
ImageUrl(prompt) == [kind |-> "url", path |-> EncodeURIComponent(prompt)]

\* the guard without the trim: !input
IsEmptyString(s) == s = <<>>

\* !input.trim()
IsBlank(s) == Trim(s) = <<>>

\* input.toLowerCase().includes("image")
IsImageRequest(s) == Includes(ToLowerCase(s), Tok_image)

(* ------------------------------ values -------------------------------- *)

\* null of editingId / reply_to (ids of stored rows start at 1)
NoId == 0

\* null of the image column
NoImage == [kind |-> "null"]

\* a text typed by the user
Lit(s) == [kind |-> "lit", s |-> s]

\* "" (setEditingText(""))
EmptyText == Lit(<<>>)

\* data.choices[0].message.content of a successful completion of request t
Completion(t) == [kind |-> "completion", of |-> t]

\* "No response."
NoResponse == [kind |-> "noresponse"]

\* `❌ Error: ${err.message}`
ErrorMarker(reason) == [kind |-> "error", reason |-> reason]

\* `Here’s your image of ${prompt}:`
Caption(prompt) == [kind |-> "caption", prompt |-> prompt]

\* how the POST to GROQ_API_URL can end: a completion text; a parsed body
\* without choices[0].message.content; fetch (or res.json()) rejecting
ProviderOutcomes == {"ok", "notext", "neterr"}

\* err.message of the rejection
FailureReason(out) == IF out = "neterr" THEN "Failed to fetch" ELSE ""

\* does the awaited fetch / res.json() reject
Rejects(out) == out = "neterr"

\* data?.choices?.[0]?.message?.content || "No response."
AiText(out, t) == IF out = "ok" THEN Completion(t) ELSE NoResponse

\* a row of chat_history
Row(id, role, content, image, reply_to, created_at) ==
  [id |-> id, role |-> role, content |-> content, image |-> image,
   reply_to |-> reply_to, created_at |-> created_at]

\* the row insert([{ role, content, image }]) creates: reply_to is not among
\* the inserted columns, so it is null
InsertedRow(ins, id, created_at) ==
  Row(id, ins.role, ins.content, ins.image, NoId, created_at)

RECURSIVE SortByCreatedAt(_)
SortByCreatedAt(S) ==
  IF S = {} THEN <<>>
  ELSE LET m == CHOOSE r \in S : \A q \in S : r.created_at <= q.created_at
       IN <<m>> \o SortByCreatedAt(S \ {m})

\* .select("*").order("created_at", { ascending: true })
Scan(S) == SortByCreatedAt(S)

\* the table when the component mounts: empty, or holding the turn an earlier
\* session saved (rows written by saveMessage, so without a reply_to)
StoreEmpty == {}
StoreOneTurn ==
  {InsertedRow([role |-> "user", content |-> Lit(InHi), image |-> NoImage],
               1, 1),
   InsertedRow([role |-> "assistant", content |-> Completion(Lit(InHi)),
                image |-> NoImage], 2, 2)}
InitStores == {StoreEmpty, StoreOneTurn}

(* ------------------------------- state -------------------------------- *)

VARIABLES
  store,        \* rows of chat_history
  nextId,       \* next id the table assigns
  clock,        \* next created_at the table assigns
  messages,     \* useState([]) line 7
  input,        \* useState("") line 6
  loading,      \* useState(false) line 8
  editingId,    \* useState(null) line 9
  editingText,  \* useState("") line 10
  tasks,        \* the handler invocations in flight, by start order (0: mount)
  nUser,        \* clicks and Enter presses so far
  sequential,   \* history: load succeeded, no reset, no two handlers overlapped
  uncaught,     \* history: some handler ended in an unhandled rejection
  obs           \* history: the handler call or completion of the last step

vars == <<store, nextId, clock, messages, input, loading, editingId,
          editingText, tasks, nUser, sequential, uncaught, obs>>

TaskIds == 0..MaxUser

NoReply == [status |-> "none", rows |-> <<>>]

\* what a call of handleDownloadPDF leaves behind when there was none
NoDoc == [alerted |-> FALSE, pages |-> 0, title |-> FALSE, drawn |-> <<>>,
          saved |-> FALSE]
NoIns == [role |-> "none", content |-> EmptyText, image |-> NoImage]

IdleTask ==
  [op |-> "idle", pc |-> "idle", id |-> NoId, text |-> EmptyText,
   reply |-> NoReply, ins |-> NoIns, alone |-> TRUE, calls |-> {},
   prov |-> "none", fail |-> FALSE, storeFail |-> FALSE,
   pre_m |-> <<>>, pre_s |-> {}, pre_eid |-> NoId, pre_etext |-> EmptyText]

NoObs ==
  [op |-> "none", id |-> NoId, text |-> EmptyText, alone |-> TRUE,
   calls |-> {}, prov |-> "none", fail |-> FALSE, storeFail |-> FALSE,
   threw |-> FALSE, started |-> FALSE, pre_loading |-> FALSE,
   pre_m |-> <<>>, pre_s |-> {}, pre_eid |-> NoId, pre_etext |-> EmptyText,
   doc |-> NoDoc]

Active(t) == tasks[t].op # "idle"
NoneActive == \A t \in TaskIds : ~Active(t)

\* the observation of task t ending; threw: in an unhandled rejection
DoneObs(t, threw) ==
  [NoObs EXCEPT !.op = tasks[t].op, !.id = tasks[t].id,
                !.text = tasks[t].text, !.alone = tasks[t].alone,
                !.calls = tasks[t].calls, !.prov = tasks[t].prov,
                !.fail = tasks[t].fail, !.storeFail = tasks[t].storeFail,
                !.threw = threw,
                !.started = TRUE,
                !.pre_m = tasks[t].pre_m, !.pre_s = tasks[t].pre_s,
                !.pre_eid = tasks[t].pre_eid, !.pre_etext = tasks[t].pre_etext]

\* what a handler that never overlaps another one started from; a handler
\* that overlaps another keeps no such record
Snapshot(rec, alone) ==
  IF alone
    THEN [rec EXCEPT !.alone = TRUE, !.pre_m = messages, !.pre_s = store,
                     !.pre_eid = editingId, !.pre_etext = editingText]
    ELSE [rec EXCEPT !.alone = FALSE, !.pre_m = <<>>, !.pre_s = {},
                     !.pre_eid = NoId, !.pre_etext = EmptyText]

\* the behaviours explored overlap invocations pairwise: an invocation starts
\* while at most one other (the mount's fetchMessages included) is in flight
RoomForOne == \A t, u \in TaskIds : Active(t) /\ Active(u) => t = u

\* a user event starts an asynchronous handler: it is task nUser + 1
Begin(rec) ==
  /\ nUser < MaxUser
  /\ RoomForOne
  /\ nUser' = nUser + 1
  /\ tasks' = [u \in TaskIds |->
                 IF u = nUser + 1 THEN Snapshot(rec, NoneActive)
                 ELSE IF Active(u) THEN Snapshot(tasks[u], FALSE)
                 ELSE tasks[u]]
  /\ sequential' = (sequential /\ NoneActive)

\* a user event whose handler runs to its end at once
Event ==
  /\ nUser < MaxUser
  /\ nUser' = nUser + 1

\* a synchronous handler ran while these invocations were in flight
Disturbed ==
  [u \in TaskIds |-> IF Active(u) THEN Snapshot(tasks[u], FALSE) ELSE tasks[u]]

Finish(t) == tasks' = [tasks EXCEPT ![t] = IdleTask]

Init ==
  /\ store \in InitStores
  /\ nextId = 3
  /\ clock = 3
  /\ messages = <<>>
  /\ input = InEmpty
  /\ loading = FALSE
  /\ editingId = NoId
  /\ editingText = EmptyText
  /\ tasks = [u \in TaskIds |->
                IF u = 0 THEN [IdleTask EXCEPT !.op = "load", !.pc = "scan",
                                               !.calls = {"scan"}]
                ELSE IdleTask]
  /\ nUser = 0
  /\ sequential = TRUE
  /\ uncaught = FALSE
  /\ obs = NoObs

(* --------------------------- the store side --------------------------- *)

\* the table serves the select of fetchMessages (lines 18-21)
StoreScan(t) ==
  /\ tasks[t].pc = "scan" /\ tasks[t].reply = NoReply
  /\ \E ok \in BOOLEAN :
       tasks' = [tasks EXCEPT
                   ![t].reply = IF ok THEN [status |-> "ok", rows |-> Scan(store)]
                                ELSE [status |-> "error", rows |-> <<>>],
                   ![t].fail = ~ok]
  /\ obs' = NoObs
  /\ UNCHANGED <<store, nextId, clock, messages, input, loading, editingId,
                 editingText, nUser, sequential, uncaught>>

\* the table serves the insert of saveMessage (lines 30-33)
StoreInsert(t) ==
  /\ tasks[t].pc \in {"saveUser", "saveImage", "saveReply", "saveRegen"}
  /\ tasks[t].reply = NoReply
  /\ \/ LET row == InsertedRow(tasks[t].ins, nextId, clock)
        IN /\ store' = store \cup {row}
           /\ nextId' = nextId + 1
           /\ clock' = clock + 1
           /\ tasks' = [tasks EXCEPT ![t].reply =
                          [status |-> "ok", rows |-> <<row>>]]
     \/ /\ tasks' = [tasks EXCEPT ![t].reply =
                       [status |-> "error", rows |-> <<>>],
                                  ![t].storeFail = TRUE]
        /\ UNCHANGED <<store, nextId, clock>>
  /\ obs' = NoObs
  /\ UNCHANGED <<messages, input, loading, editingId, editingText, nUser,
                 sequential, uncaught>>

\* .update({ content }).eq("id", id) applied to the table
UpdatedStore(S, id, content) ==
  {IF r.id = id THEN [r EXCEPT !.content = content] ELSE r : r \in S}

\* the table serves the update of handleEditSave (lines 60-64); .select()
\* returns the updated rows
StoreUpdate(t) ==
  /\ tasks[t].pc = "update" /\ tasks[t].reply = NoReply
  /\ \/ LET S == UpdatedStore(store, tasks[t].id, tasks[t].text)
        IN /\ store' = S
           /\ tasks' = [tasks EXCEPT ![t].reply =
                          [status |-> "ok",
                           rows |-> Scan({r \in S : r.id = tasks[t].id})]]
     \/ /\ tasks' = [tasks EXCEPT ![t].reply =
                       [status |-> "error", rows |-> <<>>],
                                  ![t].fail = TRUE]
        /\ UNCHANGED store
  /\ obs' = NoObs
  /\ UNCHANGED <<nextId, clock, messages, input, loading, editingId,
                 editingText, nUser, sequential, uncaught>>

\* .delete().eq("reply_to", id) applied to the table
WithoutRepliesTo(S, id) == {r \in S : r.reply_to # id}

\* the table serves the delete of lines 78-79; its result is not read
StoreDeleteReplies(t) ==
  /\ tasks[t].pc = "deleteReplies" /\ tasks[t].reply = NoReply
  /\ \/ /\ store' = WithoutRepliesTo(store, tasks[t].id)
        /\ tasks' = [tasks EXCEPT ![t].reply =
                       [status |-> "ok", rows |-> <<>>]]
     \/ /\ tasks' = [tasks EXCEPT ![t].reply =
                       [status |-> "error", rows |-> <<>>],
                                  ![t].storeFail = TRUE]
        /\ UNCHANGED store
  /\ obs' = NoObs
  /\ UNCHANGED <<nextId, clock, messages, input, loading, editingId,
                 editingText, nUser, sequential, uncaught>>

\* .delete().eq("id", id) applied to the table
WithoutId(S, id) == {r \in S : r.id # id}

\* the table serves the delete of handleDelete (line 39)
StoreDelete(t) ==
  /\ tasks[t].pc = "delete" /\ tasks[t].reply = NoReply
  /\ \/ /\ store' = WithoutId(store, tasks[t].id)
        /\ tasks' = [tasks EXCEPT ![t].reply =
                       [status |-> "ok", rows |-> <<>>]]
     \/ /\ tasks' = [tasks EXCEPT ![t].reply =
                       [status |-> "error", rows |-> <<>>],
                                  ![t].fail = TRUE]
        /\ UNCHANGED store
  /\ obs' = NoObs
  /\ UNCHANGED <<nextId, clock, messages, input, loading, editingId,
                 editingText, nUser, sequential, uncaught>>

(* ----------------------------- fetchMessages -------------------------- *)

\* a setMessages that adds the fetched rows to the log: [...prev, ...data]
LoadedMessagesAppended(prev, reply) ==
  IF reply.status = "ok" THEN prev \o reply.rows ELSE prev

\* if (!error && data) setMessages(data)
LoadedMessages(prev, reply) ==
  IF reply.status = "ok" THEN reply.rows ELSE prev

\* fetchMessages resumes after its await (line 23)
ResumeLoad(t) ==
  /\ tasks[t].pc = "scan" /\ tasks[t].reply # NoReply
  /\ messages' = LoadedMessages(messages, tasks[t].reply)
  /\ sequential' = (sequential /\ tasks[t].reply.status = "ok")
  /\ obs' = DoneObs(t, FALSE)
  /\ Finish(t)
  /\ UNCHANGED <<store, nextId, clock, input, loading, editingId, editingText,
                 nUser, uncaught>>

(* ------------------------------ saveMessage --------------------------- *)

\* the mirror putting the new row first: [data[0], ...prev]
SaveMessageMirrorFirst(prev, reply) ==
  IF reply.status = "ok" THEN <<reply.rows[1]>> \o prev ELSE prev

\* if (!error && data) setMessages((prev) => [...prev, data[0]])
SaveMessageMirror(prev, reply) ==
  IF reply.status = "ok" THEN Append(prev, reply.rows[1]) ELSE prev

(* ------------------------------- handleChat --------------------------- *)

\* what an invocation of handleChat observes
ChatCallObs(started) ==
  [NoObs EXCEPT !.op = "chat.call", !.text = Lit(input), !.started = started,
                !.alone = NoneActive, !.pre_loading = loading,
                !.pre_m = messages, !.pre_s = store, !.pre_eid = editingId,
                !.pre_etext = editingText]

\* handleChat up to its first await (lines 103-109)
HandleChat ==
  IF IsBlank(input)
    THEN /\ Event
         /\ obs' = ChatCallObs(FALSE)
         /\ UNCHANGED <<store, nextId, clock, messages, input, loading,
                        editingId, editingText, tasks, sequential, uncaught>>
    ELSE /\ Begin([IdleTask EXCEPT
                     !.op = "chat", !.pc = "saveUser", !.text = Lit(input),
                     !.ins = [role |-> "user", content |-> Lit(input),
                              image |-> NoImage],
                     !.calls = {"insert"}])
         /\ loading' = TRUE
         /\ obs' = ChatCallObs(TRUE)
         /\ UNCHANGED <<store, nextId, clock, messages, input, editingId,
                        editingText, uncaught>>

\* the Send button: disabled={loading} (lines 296-298)
ClickSend == ~loading /\ HandleChat

\* the input's onKeyDown: e.key === "Enter" && handleChat() (line 292)
PressEnter == HandleChat

\* handleChat resumes after saveMessage("user", input) (lines 109-133)
ResumeSaveUser(t) ==
  /\ tasks[t].pc = "saveUser" /\ tasks[t].reply # NoReply
  /\ messages' = SaveMessageMirror(messages, tasks[t].reply)
  /\ IF IsImageRequest(tasks[t].text.s)
       THEN LET prompt == ImagePrompt(tasks[t].text.s)
            IN tasks' = [tasks EXCEPT
                 ![t].pc = "saveImage", ![t].reply = NoReply,
                 ![t].ins = [role |-> "assistant", content |-> Caption(prompt),
                             image |-> ImageUrl(prompt)]]
       ELSE tasks' = [tasks EXCEPT
                 ![t].pc = "fetch", ![t].reply = NoReply,
                 ![t].calls = @ \cup {"fetch"}]
  /\ obs' = NoObs
  /\ UNCHANGED <<store, nextId, clock, input, loading, editingId, editingText,
                 nUser, sequential, uncaught>>

\* a tail that clears the input and leaves the indicator on
ChatEndsStillLoading(t) ==
  /\ messages' = SaveMessageMirror(messages, tasks[t].reply)
  /\ input' = InEmpty
  /\ obs' = DoneObs(t, FALSE)
  /\ Finish(t)
  /\ UNCHANGED <<store, nextId, clock, loading, editingId, editingText, nUser,
                 sequential, uncaught>>

\* the tail of both branches: setInput(""); setLoading(false)
ChatEnds(t) ==
  /\ messages' = SaveMessageMirror(messages, tasks[t].reply)
  /\ input' = InEmpty
  /\ loading' = FALSE
  /\ obs' = DoneObs(t, FALSE)
  /\ Finish(t)
  /\ UNCHANGED <<store, nextId, clock, editingId, editingText, nUser,
                 sequential, uncaught>>

\* handleChat resumes after the image saveMessage (lines 115-118)
ResumeSaveImage(t) ==
  /\ tasks[t].pc = "saveImage" /\ tasks[t].reply # NoReply
  /\ ChatEnds(t)

\* the content handleChat saves for a completion outcome (lines 135-139)
ChatReplyContent(out, t) ==
  IF Rejects(out) THEN ErrorMarker(FailureReason(out)) ELSE AiText(out, t)

\* the fetch of handleChat and res.json() return or reject (lines 122-139)
ChatFetchReturns(t) ==
  /\ tasks[t].pc = "fetch"
  /\ \E out \in ProviderOutcomes :
       tasks' = [tasks EXCEPT
         ![t].pc = "saveReply", ![t].prov = out,
         ![t].calls = @ \cup {"insert"},
         ![t].ins = [role |-> "assistant",
                     content |-> ChatReplyContent(out, tasks[t].text),
                     image |-> NoImage]]
  /\ obs' = NoObs
  /\ UNCHANGED <<store, nextId, clock, messages, input, loading, editingId,
                 editingText, nUser, sequential, uncaught>>

\* handleChat resumes after the reply saveMessage (lines 137-143)
ResumeSaveReply(t) ==
  /\ tasks[t].pc = "saveReply" /\ tasks[t].reply # NoReply
  /\ ChatEnds(t)

(* ----------------------------- handleEditSave ------------------------- *)

\* is a message with this id rendered
Shown(id) == \E i \in 1..Len(messages) : messages[i].id = id

\* the Save button of the message being edited: handleEditSave(msg.id) up to
\* its first await (lines 58-64, 235-240)
HandleEditSave ==
  /\ editingId # NoId /\ Shown(editingId)
  /\ Begin([IdleTask EXCEPT
              !.op = "edit", !.pc = "update", !.id = editingId,
              !.text = editingText, !.calls = {"update"}])
  /\ obs' = NoObs
  /\ UNCHANGED <<store, nextId, clock, messages, input, loading, editingId,
                 editingText, uncaught>>

\* the check of line 66 left out
UpdateOkAlways(reply) == TRUE

\* !error && data (line 66)
UpdateOk(reply) == reply.status = "ok"

\* prev.map((msg) => msg.id === id ? { ...msg, content: editingText } : msg)
EditMirror(prev, id, text) ==
  [i \in 1..Len(prev) |->
     IF prev[i].id = id THEN [prev[i] EXCEPT !.content = text] ELSE prev[i]]

\* the test of line 76 left out: every edited row gets a new reply
IsUserRowAlways(editedMsg) == TRUE

\* editedMsg.role === "user" (line 76)
IsUserRow(editedMsg) == editedMsg.role = "user"

\* setEditingId(null); setEditingText("") (lines 97-98)
ClearEditing ==
  /\ editingId' = NoId
  /\ editingText' = EmptyText

\* handleEditSave resumes after the update (lines 66-79, 97-98)
ResumeUpdate(t) ==
  /\ tasks[t].pc = "update" /\ tasks[t].reply # NoReply
  /\ IF ~UpdateOk(tasks[t].reply)
       THEN /\ obs' = DoneObs(t, FALSE)
            /\ Finish(t)
            /\ UNCHANGED <<messages, editingId, editingText, uncaught>>
       ELSE /\ messages' = EditMirror(messages, tasks[t].id, tasks[t].text)
            /\ IF tasks[t].reply.rows = <<>>
                 \* editedMsg is undefined: editedMsg.role throws
                 THEN /\ uncaught' = TRUE
                      /\ obs' = DoneObs(t, TRUE)
                      /\ Finish(t)
                      /\ UNCHANGED <<editingId, editingText>>
               ELSE IF IsUserRow(tasks[t].reply.rows[1])
                 THEN /\ tasks' = [tasks EXCEPT
                            ![t].pc = "deleteReplies", ![t].reply = NoReply,
                            ![t].calls = @ \cup {"deleteReplies"}]
                      /\ obs' = NoObs
                      /\ UNCHANGED <<editingId, editingText, uncaught>>
               ELSE /\ ClearEditing
                    /\ obs' = DoneObs(t, FALSE)
                    /\ Finish(t)
                    /\ UNCHANGED uncaught
  /\ UNCHANGED <<store, nextId, clock, input, loading, nUser, sequential>>

\* handleEditSave resumes after the delete by reply_to and issues the fetch
\* (lines 78-80)
ResumeDeleteReplies(t) ==
  /\ tasks[t].pc = "deleteReplies" /\ tasks[t].reply # NoReply
  /\ tasks' = [tasks EXCEPT ![t].pc = "regen", ![t].reply = NoReply,
                            ![t].calls = @ \cup {"fetch"}]
  /\ obs' = NoObs
  /\ UNCHANGED <<store, nextId, clock, messages, input, loading, editingId,
                 editingText, nUser, sequential, uncaught>>

\* the fetch of handleEditSave and res.json() return or reject (lines 80-94):
\* there is no try around them
EditFetchReturns(t) ==
  /\ tasks[t].pc = "regen"
  /\ \E out \in ProviderOutcomes :
       IF Rejects(out)
         THEN /\ uncaught' = TRUE
              /\ obs' = [DoneObs(t, TRUE) EXCEPT !.prov = out]
              /\ Finish(t)
         ELSE /\ tasks' = [tasks EXCEPT
                   ![t].pc = "saveRegen", ![t].prov = out,
                   ![t].calls = @ \cup {"insert"},
                   ![t].ins = [role |-> "assistant",
                               content |-> AiText(out, tasks[t].text),
                               image |-> NoImage]]
              /\ obs' = NoObs
              /\ UNCHANGED uncaught
  /\ UNCHANGED <<store, nextId, clock, messages, input, loading, editingId,
                 editingText, nUser, sequential>>

\* handleEditSave resumes after saveMessage("assistant", aiText) (lines 94-98)
ResumeSaveRegen(t) ==
  /\ tasks[t].pc = "saveRegen" /\ tasks[t].reply # NoReply
  /\ messages' = SaveMessageMirror(messages, tasks[t].reply)
  /\ ClearEditing
  /\ obs' = DoneObs(t, FALSE)
  /\ Finish(t)
  /\ UNCHANGED <<store, nextId, clock, input, loading, nUser, sequential,
                 uncaught>>

(* ------------------------------ handleDelete -------------------------- *)

\* the delete button of a message not being edited: handleDelete(msg.id) up
\* to its await (lines 37-39, 266-271)
HandleDelete(id) ==
  /\ Shown(id) /\ editingId # id
  /\ Begin([IdleTask EXCEPT !.op = "delete", !.pc = "delete", !.id = id,
                            !.calls = {"delete"}])
  /\ obs' = NoObs
  /\ UNCHANGED <<store, nextId, clock, messages, input, loading, editingId,
                 editingText, uncaught>>

\* a filter that also drops the row following the deleted one
DeleteFilterWithNext(prev, id) ==
  LET at == {i \in 1..Len(prev) : prev[i].id = id}
      keep == {i \in 1..Len(prev) : i \notin at /\ (i - 1) \notin at}
      F[i \in 0..Len(prev)] ==
        IF i = 0 THEN <<>>
        ELSE IF i \in keep THEN Append(F[i - 1], prev[i]) ELSE F[i - 1]
  IN F[Len(prev)]

\* prev.filter((msg) => msg.id !== id)
DeleteFilter(prev, id) == SelectSeq(prev, LAMBDA msg : msg.id # id)

\* a handleDelete without the check of lines 41-44: the log is filtered
\* whatever the table answered
ResumeDeleteUnchecked(t) ==
  /\ tasks[t].pc = "delete" /\ tasks[t].reply # NoReply
  /\ messages' = DeleteFilter(messages, tasks[t].id)
  /\ obs' = DoneObs(t, FALSE)
  /\ Finish(t)
  /\ UNCHANGED <<store, nextId, clock, input, loading, editingId, editingText,
                 nUser, sequential, uncaught>>

\* handleDelete resumes after the delete (lines 41-47)
ResumeDelete(t) ==
  /\ tasks[t].pc = "delete" /\ tasks[t].reply # NoReply
  /\ IF tasks[t].reply.status = "error"
       THEN UNCHANGED messages
       ELSE messages' = DeleteFilter(messages, tasks[t].id)
  /\ obs' = DoneObs(t, FALSE)
  /\ Finish(t)
  /\ UNCHANGED <<store, nextId, clock, input, loading, editingId, editingText,
                 nUser, sequential, uncaught>>

(* --------------------------- synchronous handlers --------------------- *)

\* the input's onChange: setInput(e.target.value) (line 291); the user
\* types a text into the empty box
SetInput(v) ==
  /\ nUser < MaxUser
  /\ input = InEmpty /\ v # InEmpty
  /\ input' = v
  /\ tasks' = Disturbed
  /\ obs' = NoObs
  /\ UNCHANGED <<store, nextId, clock, messages, loading, editingId,
                 editingText, nUser, sequential, uncaught>>

\* the edit button of a message not being edited (lines 52-55, 260-265)
HandleEditStart(i) ==
  /\ Event
  /\ i \in 1..Len(messages) /\ editingId # messages[i].id
  /\ editingId' = messages[i].id
  /\ editingText' = messages[i].content
  /\ tasks' = Disturbed
  /\ obs' = NoObs
  /\ UNCHANGED <<store, nextId, clock, messages, input, loading,
                 sequential, uncaught>>

\* the textarea's onChange: setEditingText(e.target.value) (line 231); the
\* user replaces the draft by a text
SetEditingText(d) ==
  /\ nUser < MaxUser
  /\ editingId # NoId /\ Shown(editingId)
  /\ editingText # Lit(d)
  /\ editingText' = Lit(d)
  /\ tasks' = Disturbed
  /\ obs' = NoObs
  /\ UNCHANGED <<store, nextId, clock, messages, input, loading, editingId,
                 nUser, sequential, uncaught>>

\* the Cancel button: setEditingId(null) (lines 241-246)
CancelEdit ==
  /\ Event
  /\ editingId # NoId /\ Shown(editingId)
  /\ editingId' = NoId
  /\ tasks' = Disturbed
  /\ obs' = [NoObs EXCEPT !.op = "cancel", !.alone = NoneActive,
                          !.pre_m = messages, !.pre_s = store,
                          !.pre_eid = editingId, !.pre_etext = editingText]
  /\ UNCHANGED <<store, nextId, clock, messages, input, loading, editingText,
                 sequential, uncaught>>

\* what the New Chat button's handler started from
ResetObs ==
  [NoObs EXCEPT !.op = "reset", !.alone = NoneActive, !.pre_s = store,
                !.pre_eid = editingId, !.pre_etext = editingText]

\* a handleNewChat without its last two lines: the editing target survives
HandleNewChatKeepsEditing ==
  /\ Event
  /\ messages' = <<>>
  /\ input' = InEmpty
  /\ sequential' = FALSE
  /\ tasks' = Disturbed
  /\ obs' = ResetObs
  /\ UNCHANGED <<store, nextId, clock, loading, editingId, editingText,
                 uncaught>>

\* handleNewChat (lines 146-151)
HandleNewChat ==
  /\ Event
  /\ messages' = <<>>
  /\ input' = InEmpty
  /\ editingId' = NoId
  /\ editingText' = EmptyText
  /\ sequential' = FALSE
  /\ tasks' = Disturbed
  /\ obs' = ResetObs
  /\ UNCHANGED <<store, nextId, clock, loading, uncaught>>

(* --------------------------- handleDownloadPDF ------------------------ *)

\* let y = 20 (line 161), and again after doc.addPage() (line 181)
TopY == 20

\* if (y > 270) (line 179)
UsableHeight == 270

\* y += splitText.length * 7 (line 177)
LineHeight == 7

\* a content that, behind its sender prefix, doc.splitTextToSize(text, 170)
\* splits into n lines
Wrapped(n) == [kind |-> "wrapped", lines |-> n]

\* the sender prefix of line 171, without its emoji
Sender(msg) == IF msg.role = "user" THEN "You: " ELSE "AI: "

\* splitText.length (lines 174, 177)
SplitTextToSize(msg) == msg.content.lines

\* a test no log passes: messages.length < 0
NothingToExportNever(msgs) == Len(msgs) < 0

\* messages.length === 0 (line 155)
NothingToExport(msgs) == Len(msgs) = 0

\* messages.forEach (lines 167-183) from the cursor y on page `page`: each
\* record is drawn at the cursor, the cursor moves down by its lines, and a
\* cursor past the usable height opens a page and goes back to the top
RECURSIVE ForEachMessage(_, _, _, _)
ForEachMessage(msgs, y, page, drawn) ==
  IF msgs = <<>> THEN [pages |-> page, drawn |-> drawn]
  ELSE LET msg == Head(msgs)
           splitText == SplitTextToSize(msg)
           rec == [id |-> msg.id, sender |-> Sender(msg), page |-> page,
                   y |-> y, lines |-> splitText]
           below == y + splitText * LineHeight
       IN IF below > UsableHeight
            THEN ForEachMessage(Tail(msgs), TopY, page + 1, Append(drawn, rec))
            ELSE ForEachMessage(Tail(msgs), below, page, Append(drawn, rec))

\* what one call of handleDownloadPDF does (lines 154-186): the alert, or a
\* document of one page with the title, the records, and doc.save
ExportedDoc(msgs) ==
  IF NothingToExport(msgs) THEN [NoDoc EXCEPT !.alerted = TRUE]
  ELSE LET r == ForEachMessage(msgs, TopY, 1, <<>>)
       IN [alerted |-> FALSE, pages |-> r.pages, title |-> TRUE,
           drawn |-> r.drawn, saved |-> TRUE]

\* the Download PDF button (lines 203-208): the handler reads the log and
\* sets no state
HandleDownloadPDF ==
  /\ obs' = [NoObs EXCEPT !.op = "export", !.doc = ExportedDoc(messages)]
  /\ UNCHANGED <<store, nextId, clock, messages, input, loading, editingId,
                 editingText, tasks, nUser, sequential, uncaught>>

(* ------------------------------- behaviours --------------------------- *)

Next ==
  \/ \E t \in TaskIds : StoreScan(t)
  \/ \E t \in TaskIds : ResumeLoad(t)
  \/ \E t \in TaskIds : StoreInsert(t)
  \/ \E t \in TaskIds : StoreUpdate(t)
  \/ \E t \in TaskIds : StoreDeleteReplies(t)
  \/ \E t \in TaskIds : StoreDelete(t)
  \/ ClickSend
  \/ PressEnter
  \/ \E t \in TaskIds : ResumeSaveUser(t)
  \/ \E t \in TaskIds : ResumeSaveImage(t)
  \/ \E t \in TaskIds : ChatFetchReturns(t)
  \/ \E t \in TaskIds : ResumeSaveReply(t)
  \/ HandleEditSave
  \/ \E t \in TaskIds : ResumeUpdate(t)
  \/ \E t \in TaskIds : ResumeDeleteReplies(t)
  \/ \E t \in TaskIds : EditFetchReturns(t)
  \/ \E t \in TaskIds : ResumeSaveRegen(t)
  \/ \E id \in 1..(nextId - 1) : HandleDelete(id)
  \/ \E t \in TaskIds : ResumeDelete(t)
  \/ \E v \in Inputs : SetInput(v)
  \/ \E i \in 1..Len(messages) : HandleEditStart(i)
  \/ \E d \in Drafts : SetEditingText(d)
  \/ CancelEdit
  \/ HandleNewChat

Spec == Init /\ [][Next]_vars

(* ----------------------- every awaited call returns ------------------- *)

\* the call invocation t awaits returns: the table or the provider answers
Answers(t) ==
  \/ StoreScan(t)
  \/ StoreInsert(t)
  \/ StoreUpdate(t)
  \/ StoreDeleteReplies(t)
  \/ StoreDelete(t)
  \/ ChatFetchReturns(t)
  \/ EditFetchReturns(t)

\* invocation t resumes with the answer to the call it awaited
Resumes(t) ==
  \/ ResumeLoad(t)
  \/ ResumeSaveImage(t)
  \/ ResumeSaveReply(t)
  \/ ResumeUpdate(t)
  \/ ResumeDeleteReplies(t)
  \/ ResumeSaveRegen(t)
  \/ ResumeDelete(t)

\* handleChat can resume after its first saveMessage: the guard of
\* ResumeSaveUser(t), which is all that its being enabled depends on
CanResumeSaveUser(t) == tasks[t].pc = "saveUser" /\ tasks[t].reply # NoReply

\* WF_vars(ResumeSaveUser(t)) with ENABLED <<ResumeSaveUser(t)>>_vars
\* written as its guard, which spares TLC deriving the image prompt each
\* time it tests whether the step is enabled
ResumeSaveUserFair(t) ==
  ([]<>(~CanResumeSaveUser(t))) \/ ([]<><<ResumeSaveUser(t)>>_vars)

\* the behaviours in which no awaited store or provider call stays
\* unanswered and no answered handler stays suspended
FairSpec ==
  /\ Spec
  /\ \A t \in TaskIds :
       WF_vars(Answers(t)) /\ WF_vars(Resumes(t)) /\ ResumeSaveUserFair(t)

(* ------------------------ fetchMessages on its own -------------------- *)

\* the rows earlier sessions left in the table, some of them deleted again
LoadRows ==
  StoreOneTurn \cup
  {InsertedRow([role |-> "user", content |-> Lit(InCat), image |-> NoImage],
               3, 3)}
LoadStores == SUBSET LoadRows

\* the invocations of fetchMessages: the effect of lines 16-26 runs once for
\* each time the component is mounted
Loads == {t \in TaskIds : t < MaxLoads}

\* fetchMessages is called MaxLoads times and nothing else is: no handler
\* writes the table between the loads
InitLoad ==
  /\ store \in LoadStores
  /\ nextId = 4
  /\ clock = 4
  /\ messages = <<>>
  /\ input = InEmpty
  /\ loading = FALSE
  /\ editingId = NoId
  /\ editingText = EmptyText
  /\ tasks = [u \in TaskIds |->
                IF u \in Loads THEN [IdleTask EXCEPT !.op = "load",
                                                     !.pc = "scan",
                                                     !.calls = {"scan"}]
                ELSE IdleTask]
  /\ nUser = 0
  /\ sequential = TRUE
  /\ uncaught = FALSE
  /\ obs = NoObs

NextLoad ==
  \/ \E t \in TaskIds : StoreScan(t)
  \/ \E t \in TaskIds : ResumeLoad(t)

SpecLoad == InitLoad /\ [][NextLoad]_vars

(* ---------------------- handleDownloadPDF on its own ------------------ *)

\* the line counts the records of the exported logs wrap to
LineCounts == {1, MaxLines \div 2, MaxLines - 1, MaxLines}

\* the logs of k messages
LogsOfLen(k) ==
  {[i \in 1..k |-> Row(i, role[i], Wrapped(n[i]), NoImage, NoId, i)] :
     role \in [1..k -> {"user", "assistant"}], n \in [1..k -> LineCounts]}

ExportLogs == UNION {LogsOfLen(k) : k \in 0..MaxExported}

\* a loaded log mirroring the table, nothing in flight
InitExport ==
  /\ messages \in ExportLogs
  /\ store = {messages[i] : i \in 1..Len(messages)}
  /\ nextId = Len(messages) + 1
  /\ clock = Len(messages) + 1
  /\ input = InEmpty
  /\ loading = FALSE
  /\ editingId = NoId
  /\ editingText = EmptyText
  /\ tasks = [u \in TaskIds |-> IdleTask]
  /\ nUser = 0
  /\ sequential = TRUE
  /\ uncaught = FALSE
  /\ obs = NoObs

NextExport == HandleDownloadPDF

SpecExport == InitExport /\ [][NextExport]_vars

(* ------------------------------- claims ------------------------------- *)

\* the log now is the log the observed invocation started from plus k rows
AppendedToLog(k) ==
  /\ Len(messages) = Len(obs.pre_m) + k
  /\ SubSeq(messages, 1, Len(obs.pre_m)) = obs.pre_m

\* the text contains "image" in some letter case
ImageUpper == <<"I", "M", "A", "G", "E">>
ContainsImageAnyCase(s) ==
  \E i \in 1..Len(s) :
    /\ i + 4 <= Len(s)
    /\ \A k \in 1..5 : s[i + k - 1] \in {Tok_image[k], ImageUpper[k]}

\* the text is empty or only spaces
AllSpaces(s) == \A i \in 1..Len(s) : s[i] = " "

\* ids of the rows of the log
LogIds == {messages[i].id : i \in 1..Len(messages)}

\* C1: after handlers that each ran to completion one after another, from a
\* loaded history and without a reset, the in-memory log is the table's
\* ordered scan (same rows, same contents, same order).
C1_LogEqualsScan ==
  (sequential /\ NoneActive) => messages = Scan(store)

\* a handleEditSave on a user row ran alone up to its regenerated reply
C1_Witness ==
  /\ sequential /\ NoneActive
  /\ obs.op = "edit" /\ obs.alone /\ "deleteReplies" \in obs.calls
  /\ ~obs.storeFail /\ ~obs.threw
  /\ Len(messages) = 3

\* C2: a handleChat on a text without "image" whose completion succeeds (and
\* whose inserts succeed) appends a user row then an assistant row whose
\* reply_to is the user row's id.
C2_ReplyLinkedToUserTurn ==
  (/\ obs.op = "chat" /\ obs.alone
   /\ ~ContainsImageAnyCase(obs.text.s)
   /\ obs.prov = "ok" /\ ~obs.storeFail)
  => /\ AppendedToLog(2)
     /\ messages[Len(messages) - 1].role = "user"
     /\ messages[Len(messages)].role = "assistant"
     /\ messages[Len(messages)].reply_to = messages[Len(messages) - 1].id

\* the observed invocation is a handleEditSave on a user row that went through
\* with every store call and the completion succeeding
EditOfUserRowSucceeded ==
  /\ obs.op = "edit" /\ obs.alone
  /\ ~obs.fail /\ ~obs.storeFail /\ ~obs.threw /\ obs.prov = "ok"
  /\ \E r \in obs.pre_s : r.id = obs.id /\ r.role = "user"

\* C3: after a successful handleEditSave on user row X, every row that had
\* reply_to = X is gone from the table and from the log, and exactly one
\* assistant row with reply_to = X exists, holding the completion of the draft.
C3_RepliesReplacedByOne ==
  EditOfUserRowSucceeded
  => /\ \A r \in obs.pre_s :
          r.reply_to = obs.id
          => (r.id \notin LogIds /\ \A q \in store : q.id # r.id)
     /\ LET fresh == {q \in store : q.reply_to = obs.id /\ q.role = "assistant"}
        IN /\ Cardinality(fresh) = 1
           /\ \A q \in fresh :
                /\ q.content = Completion(obs.text)
                /\ messages[Len(messages)] = q

\* C4: a handleDelete(X) whose store delete succeeds removes exactly row X
\* from the table and from the log; every other row, the rows with
\* reply_to = X included, stays, with its content and its position.
C4_DeleteRemovesOnlyTarget ==
  (obs.op = "delete" /\ obs.alone /\ ~obs.fail)
  => /\ store = {r \in obs.pre_s : r.id # obs.id}
     /\ messages = SelectSeq(obs.pre_m, LAMBDA m : m.id # obs.id)
     /\ \A r \in obs.pre_s :
          (r.reply_to = obs.id /\ r.id # obs.id)
          => (r \in store /\ \E i \in 1..Len(messages) : messages[i] = r)

\* a delete of a user row went through and the assistant row that followed
\* it is still shown
C4_Witness ==
  /\ obs.op = "delete" /\ obs.alone /\ ~obs.fail
  /\ Len(obs.pre_m) = 2 /\ obs.pre_m[1].id = obs.id
  /\ obs.pre_m[1].role = "user"
  /\ messages = <<obs.pre_m[2]>>

\* C5: when the completion of a handleChat fails (the request rejects, or the
\* response carries no completion text) the log ends with the user row
\* followed by an assistant row whose content is the error marker with the
\* failure reason.
C5_FailureShownAsErrorMarker ==
  (/\ obs.op = "chat" /\ obs.alone
   /\ ~ContainsImageAnyCase(obs.text.s)
   /\ obs.prov \in {"notext", "neterr"} /\ ~obs.storeFail)
  => /\ AppendedToLog(2)
     /\ messages[Len(messages) - 1].role = "user"
     /\ messages[Len(messages)].role = "assistant"
     /\ messages[Len(messages)].content.kind = "error"

\* C6: when the update of handleEditSave fails, the editing target (id and
\* draft) is as it was, the log and the table are as they were, and neither
\* the delete by reply_to nor the completion request was issued.
C6_FailedUpdateAbortsEdit ==
  (obs.op = "edit" /\ obs.alone /\ obs.fail)
  => /\ editingId = obs.pre_eid /\ editingId = obs.id
     /\ editingText = obs.pre_etext
     /\ messages = obs.pre_m
     /\ store = obs.pre_s
     /\ obs.calls = {"update"}
     /\ ~obs.threw

\* a failed update of a row whose draft differs from its content
C6_Witness ==
  /\ obs.op = "edit" /\ obs.alone /\ obs.fail
  /\ \E i \in 1..Len(messages) :
       messages[i].id = obs.id /\ messages[i].content # obs.text

\* C7: no handler ends in an unhandled rejection; a handleEditSave on a user
\* row whose completion request rejects still ends with the editing target
\* cleared.
C7_NoUncaughtError ==
  /\ ~uncaught
  /\ (obs.op = "edit" /\ obs.alone /\ ~obs.fail /\ obs.prov = "neterr")
     => (~obs.threw /\ editingId = NoId /\ editingText = EmptyText)

\* C8: while one of handleChat, handleEditSave, handleDelete is suspended on
\* a call, no other one is in flight.
C8_OneOperationAtATime ==
  \A t, u \in 1..MaxUser : (Active(t) /\ Active(u)) => t = u

\* the image column the turn must end up with, for the texts typed here:
\* "generate IMAGE of a cat" gives the subject "a cat"
ExpectedImage(s) ==
  IF s = InCat
    THEN [kind |-> "url", path |-> <<"a", "%", "2", "0", "c", "a", "t">>]
    ELSE NoImage

\* what C9 says of a finished image turn
ImageTurnResult ==
  /\ AppendedToLog(2)
  /\ messages[Len(messages) - 1].role = "user"
  /\ messages[Len(messages) - 1].content = obs.text
  /\ messages[Len(messages)].role = "assistant"
  /\ messages[Len(messages)].image # NoImage
  /\ messages[Len(messages)].image = ExpectedImage(obs.text.s)
  /\ "fetch" \notin obs.calls

C10_BlankInputIsNoOp ==
  (obs.op = "chat.call" /\ AllSpaces(obs.text.s))
  => /\ ~obs.started
     /\ obs.alone => NoneActive
     /\ messages = obs.pre_m
     /\ store = obs.pre_s
     /\ loading = obs.pre_loading
     /\ editingId = obs.pre_eid
     /\ editingText = obs.pre_etext

\* handleChat was called on a whitespace-only input
C10_Witness ==
  /\ obs.op = "chat.call" /\ obs.text.s = InBlank
  /\ obs.alone

\* C11: handleNewChat leaves the log empty and the editing target cleared (no
\* id, no draft); the table is as it was and no invocation is started, so no
\* store call is made.
C11_ResetClearsViewOnly ==
  obs.op = "reset"
  => /\ messages = <<>>
     /\ editingId = NoId
     /\ editingText = EmptyText
     /\ store = obs.pre_s
     /\ obs.alone => NoneActive

\* New Chat was clicked while a message of a non-empty table was being edited
C11_Witness ==
  /\ obs.op = "reset" /\ obs.alone
  /\ obs.pre_eid # NoId /\ obs.pre_etext # EmptyText
  /\ store # {}

\* the sequence holds each row of the table once, in ascending created_at
IsAscendingScanOf(m, S) ==
  /\ Len(m) = Cardinality(S)
  /\ {m[i] : i \in 1..Len(m)} = S
  /\ \A i, j \in 1..Len(m) : i < j => m[i].created_at < m[j].created_at

\* a fetchMessages that got rows from the table has just resumed
LoadSucceeded == obs.op = "load" /\ ~obs.fail

\* C12: when nothing writes the table, a fetchMessages that succeeds leaves
\* the log equal to the table's rows in ascending created_at, and a log that
\* a load has filled is left the same by every later load.
C12_LoadIsScanAndIdempotent ==
  /\ [](LoadSucceeded => IsAscendingScanOf(messages, store))
  /\ [][messages # <<>> => messages' = messages]_vars

\* every fetchMessages has succeeded, the last one just now, on a table of
\* at least two rows
C12_Witness ==
  /\ LoadSucceeded /\ NoneActive /\ sequential
  /\ Len(messages) >= 2

\* C13: handleDownloadPDF on an empty log raises the alert and makes no
\* document: no page, no title, no record drawn, nothing saved.
C13_EmptyExportsNothing ==
  (obs.op = "export" /\ messages = <<>>)
  => /\ obs.doc.alerted
     /\ obs.doc.pages = 0
     /\ ~obs.doc.title
     /\ obs.doc.drawn = <<>>
     /\ ~obs.doc.saved

\* Download PDF was clicked on an empty log
C13_Witness == obs.op = "export" /\ messages = <<>> /\ obs.doc.alerted

\* the record fits between the top of a page and its usable height
FitsOnAPage(d) == TopY + d.lines * LineHeight <= UsableHeight

\* C14: no record that fits on a page is drawn from a cursor that its lines
\* carry past the usable height (the page is broken before it instead), and
\* the record that opens each later page is drawn at the top.
C14_BreakBeforeOverflow ==
  obs.op = "export"
  => \A k \in 1..Len(obs.doc.drawn) :
       LET d == obs.doc.drawn[k]
       IN /\ FitsOnAPage(d) => d.y + d.lines * LineHeight <= UsableHeight
          /\ (k > 1 /\ obs.doc.drawn[k - 1].page < d.page) => d.y = TopY

\* the observed invocation is a handleEditSave on an assistant row of the
\* table whose update went through
EditOfAssistantRowStored ==
  /\ obs.op = "edit" /\ obs.alone /\ ~obs.fail
  /\ \E r \in obs.pre_s : r.id = obs.id /\ r.role = "assistant"

\* the row as the edit leaves it: the draft as content, all else as before
Edited(r) == IF r.id = obs.id THEN [r EXCEPT !.content = obs.text] ELSE r

\* C15: a handleEditSave on an assistant row whose update succeeds changes
\* that row's content and nothing else: in the log and in the table every
\* row keeps its id and its place, no row is added or removed, and the only
\* call made is the update (no delete by reply_to, no completion request).
C15_AssistantEditChangesOnlyContent ==
  EditOfAssistantRowStored
  => /\ Len(messages) = Len(obs.pre_m)
     /\ \A i \in 1..Len(messages) : messages[i] = Edited(obs.pre_m[i])
     /\ store = {Edited(r) : r \in obs.pre_s}
     /\ Cardinality(store) = Cardinality(obs.pre_s)
     /\ obs.calls = {"update"}
     /\ obs.prov = "none"
     /\ ~obs.threw

\* an assistant row shown second in the log got a new content
C15_Witness ==
  /\ EditOfAssistantRowStored
  /\ Len(messages) = 2 /\ messages[2].id = obs.id
  /\ messages[2].content = obs.text
  /\ obs.pre_m[2].content # obs.text
  /\ messages[1] = obs.pre_m[1]

\* C16: the Cancel button leaves no editing target, neither the id nor the
\* draft text, and touches neither the table nor the log.
C16_CancelClearsTargetAndDraft ==
  obs.op = "cancel"
  => /\ editingId = NoId
     /\ editingText = EmptyText
     /\ store = obs.pre_s
     /\ messages = obs.pre_m
     /\ obs.alone => NoneActive

\* C17: no two entries of the in-memory log have the same id.
C17_NoDuplicateInLog ==
  \A i, j \in 1..Len(messages) : messages[i].id = messages[j].id => i = j

\* C18: every handleChat that got past the empty-input check and is in
\* flight comes to its end, and at its end the loading flag is false and the
\* input is empty, whichever branch it took.
C18_ChatFinishesCleared ==
  \A t \in TaskIds :
    (tasks[t].op = "chat")
      ~> (/\ tasks[t].op = "idle" /\ obs.op = "chat"
          /\ ~loading /\ input = InEmpty)

\* a handleChat whose completion request was rejected has just ended
C18_Witness ==
  /\ obs.op = "chat" /\ obs.started /\ obs.prov = "neterr"
  /\ ~loading /\ input = InEmpty

\* C19: the editing target is none or the id of a message of the in-memory
\* log.
C19_EditingTargetInLog == editingId = NoId \/ editingId \in LogIds

\* C20: after a handleDelete whose store delete failed, the log and the table
\* are what they were when it was called: the message is still shown, at the
\* place it had.
C20_FailedDeleteKeepsLog ==
  (obs.op = "delete" /\ obs.alone /\ obs.fail)
  => /\ messages = obs.pre_m
     /\ store = obs.pre_s
     /\ obs.id \in LogIds

\* the delete of the first of two shown messages failed
C20_Witness ==
  /\ obs.op = "delete" /\ obs.alone /\ obs.fail
  /\ Len(messages) = 2 /\ messages[1].id = obs.id
  /\ messages[1] \in store

====
